---- MODULE Spec2Model ----
(***************************************************************************)
(* kanban_api: user registration / login with JWT bearer tokens, the auth  *)
(* middleware, and CRUD on boards, over an in-memory or a SQLite (gorm)    *)
(* store.  Requests are served concurrently, one worker per request; each  *)
(* worker is a process Procs with a program counter pc[p].  Steps of a     *)
(* request are split where the code touches state shared between requests *)
(* (the stores, their locks, the wall clock).                              *)
(*                                                                         *)
(* Strings the code transforms (emails, titles, the Authorization header)  *)
(* are sequences of one-character strings.  IDs (UUIDs) are naturals, 0    *)
(* standing for the empty string.  Time is counted in ticks, TimePrecision *)
(* ticks to the second.  Error values are sequences of words.              *)
(***************************************************************************)
EXTENDS Integers, Sequences, FiniteSets, TLC

\* ------------------------------------------------------------------ bounds
MaxUsers == 2
MaxBoards == 1
MaxSeqBoards == 2
MaxSeqTime == 2
MaxRaceBoards == 1
MaxRaceTime == 1
MaxTime == 3
TimePrecision == 2
TTLSeconds == 1

\* the workers; the specifications let one, two or all three serve requests
Procs == {"w1", "w2", "w3"}
PairProcs == {"w1", "w2"}

\* bcrypt keys Blowfish with 18 words of 32 bits: 72 bytes of the password
BcryptKeyLen == 72

\* a password of 72 bytes, and that password with one more byte
Password72 == [i \in 1..BcryptKeyLen |-> "a"]
Password73 == Password72 \o <<"x">>

\* the passwords of the requests served one at a time: register with none or
\* with the password of 73 bytes, login with any
Passwords == {<<>>, Password72, Password73, <<"q">>}
RegisterPasswords == {<<>>, Password73}
\* the passwords of the requests served concurrently: register with none or
\* with the password of 72 bytes, login with that one, a longer or another one
ConcurrentPasswords == {Password72, Password73, <<"q">>}
ConcurrentRegisterPasswords == {<<>>, Password72}

\* ----------------------------------------------------------------- strings

\* the emails requests carry: empty, blank, one in upper case with blanks
\* around it, and two that differ after normalisation
RawEmails == {<<>>, <<" ">>, <<"a">>, <<"\f", "A", "U+00A0">>, <<"b">>}
\* the titles requests carry: empty, blank, a title with blanks around it,
\* and another title
RawTitles == {<<>>, <<" ", "\f">>, <<"U+0085", "a", " ">>, <<"b">>}

\* unicode.IsSpace, the characters strings.TrimSpace strips: '\t', '\n', '\v',
\* '\f', '\r', ' ', U+0085, U+00A0 and the space separators of Unicode.  A
\* character that cannot be written in a string here is named by its code
\* point.
IsSpace(c) ==
    c \in {" ", "\t", "\n", "\f", "\r", "U+000B", "U+0085", "U+00A0", "U+1680",
           "U+2000", "U+2001", "U+2002", "U+2003", "U+2004", "U+2005", "U+2006",
           "U+2007", "U+2008", "U+2009", "U+200A", "U+2028", "U+2029", "U+202F",
           "U+205F", "U+3000"}

RECURSIVE TrimLeft(_)
TrimLeft(s) ==
    IF s = <<>> THEN s
    ELSE IF IsSpace(Head(s)) THEN TrimLeft(Tail(s)) ELSE s

RECURSIVE TrimRight(_)
TrimRight(s) ==
    IF s = <<>> THEN s
    ELSE IF IsSpace(s[Len(s)]) THEN TrimRight(SubSeq(s, 1, Len(s) - 1)) ELSE s

TrimSpaceNone(s) == s

\* strings.TrimSpace
TrimSpace(s) == TrimRight(TrimLeft(s))

LowerChar(c) == IF c = "A" THEN "a" ELSE IF c = "B" THEN "b" ELSE c

\* strings.ToLower
ToLower(s) == [i \in 1..Len(s) |-> LowerChar(s[i])]

\* strings.HasPrefix
HasPrefix(s, pre) == Len(s) >= Len(pre) /\ SubSeq(s, 1, Len(pre)) = pre

\* strings.TrimPrefix
TrimPrefix(s, pre) == IF HasPrefix(s, pre) THEN SubSeq(s, Len(pre) + 1, Len(s)) ELSE s

\* strings.Contains, on an error text taken word by word
Contains(msg, word) == \E i \in 1..Len(msg) : msg[i] = word

\* ------------------------------------------------------------------ errors
NoError == <<>>
ErrUserExists == <<"user", "already", "exists">>
ErrNotFound == <<"not", "found">>
ErrDB == <<"database", "is", "locked">>
ErrEmailPasswordRequired == <<"email", "and", "password", "required">>
ErrInvalidCredentials == <<"invalid", "credentials">>
ErrTitleRequired == <<"title", "required">>
ErrInvalidBody == <<"invalid", "body">>
ErrMissingBearer == <<"missing", "bearer", "token">>
ErrInvalidToken == <<"invalid", "token">>
ErrPasswordTooLong == <<"bcrypt:", "password", "length", "exceeds", "72", "bytes">>
ErrRandom == <<"unexpected", "EOF">>

\* -------------------------------------------------------------------- time
\* time.Time.Truncate(jwt.TimePrecision): down to the whole second
TruncateSecond(t) == t - (t % TimePrecision)

tokenTTL == TTLSeconds * TimePrecision

\* ------------------------------------------------------------------- users
\* a stored password hash.  key: the bytes of the password the hash depends
\* on.  pw is history: the password that was hashed, which no operation of
\* the program can read back.
EmptyHash == [alg |-> "", key |-> <<>>, pw |-> <<>>]
EmptyUser == [id |-> 0, email |-> <<>>, passwordHash |-> EmptyHash, createdAt |-> 0]

\* the byte that ends the key
NUL == "U+0000"

\* the key bcrypt gives Blowfish: the password and a NUL byte, repeated, cut
\* at 72 bytes
BcryptKey(pw) ==
    LET k == pw \o <<NUL>> IN [i \in 1..BcryptKeyLen |-> k[((i - 1) % Len(k)) + 1]]

\* how a call of bcrypt.GenerateFromPassword can end: with a hash; with the
\* error of the random source the salt is read from; for a password of more
\* than 72 bytes with ErrPasswordTooLong (golang.org/x/crypto from v0.5.0) or
\* with a hash of its first 72 bytes (before v0.5.0; the source does not
\* record the version)
GenerateOutcomes(pw) ==
    {"hash", "random"} \cup (IF Len(pw) > BcryptKeyLen THEN {"tooLong"} ELSE {})

\* bcrypt.GenerateFromPassword(password, DefaultCost): (hash, err)
GenerateFromPassword(pw, outcome) ==
    IF outcome = "tooLong" THEN [hash |-> EmptyHash, err |-> ErrPasswordTooLong]
    ELSE IF outcome = "random" THEN [hash |-> EmptyHash, err |-> ErrRandom]
    ELSE [hash |-> [alg |-> "bcrypt", key |-> BcryptKey(pw), pw |-> pw], err |-> NoError]

\* bcrypt.CompareHashAndPassword(hash, pw) = nil: the password is hashed
\* again, whatever its length, and the two hashes compared; an empty or
\* foreign hash string never matches
CompareHashAndPassword(hash, pw) == hash.alg = "bcrypt" /\ hash.key = BcryptKey(pw)

\* ------------------------------------------------------------------ tokens
jwtSecret == "dev-secret"
OtherSecret == "other-secret"
Issuer == "kanban_api"

NoToken == [alg |-> "", key |-> "", sub |-> 0, email |-> <<>>, iss |-> "",
            iat |-> 0, exp |-> 0]

IssueExpiryFromNow(u, secret, t) ==
    [alg |-> "HS256", key |-> secret, sub |-> u.id, email |-> u.email,
     iss |-> Issuer, iat |-> TruncateSecond(t), exp |-> t + tokenTTL]

\* authService.issueToken: the claims, signed HS256 with the secret.  key
\* stands for the signature: the key it verifies under.
issueToken(u, secret, t) ==
    [alg |-> "HS256", key |-> secret, sub |-> u.id, email |-> u.email,
     iss |-> Issuer, iat |-> TruncateSecond(t),
     exp |-> TruncateSecond(t + tokenTTL)]

\* The Authorization header: its text up to the token, then the token (NoToken:
\* nothing follows the text).
BearerPrefix == <<"B", "e", "a", "r", "e", "r", " ">>
NoHeader == [text |-> <<>>, tok |-> NoToken]
BearerHeader(tok) == [text |-> BearerPrefix, tok |-> tok]

\* the signing methods golang-jwt registers whose Verify takes a []byte key
HMACMethods == {"HS256", "HS384", "HS512"}

\* jwt.ParseWithClaims(raw, &CustomClaims{}, keyfunc) with err == nil and
\* tok.Valid: raw is the header text left after the prefix, followed by the
\* token.  The keyfunc returns the secret whatever the token's alg.
ParseWithClaims(rest, tok, secret, t) ==
    /\ rest = <<>>
    /\ tok # NoToken
    /\ tok.alg \in HMACMethods
    /\ tok.key = secret
    /\ t < tok.exp

NoAuth == [ok |-> FALSE, status |-> 0, error |-> NoError, userID |-> 0, email |-> <<>>]

AuthRequiredNoAbort(hdr, secret, t) ==
    IF ~HasPrefix(hdr.text, BearerPrefix)
    THEN [ok |-> TRUE, status |-> 401, error |-> ErrMissingBearer, userID |-> 0, email |-> <<>>]
    ELSE IF ~ParseWithClaims(TrimPrefix(hdr.text, BearerPrefix), hdr.tok, secret, t)
    THEN [ok |-> TRUE, status |-> 401, error |-> ErrInvalidToken, userID |-> 0, email |-> <<>>]
    ELSE [ok |-> TRUE, status |-> 0, error |-> NoError,
          userID |-> hdr.tok.sub, email |-> hdr.tok.email]

\* middleware.AuthRequired(secret) on one request at time t: ok means c.Next()
\* runs with userID and email set in the context
AuthRequired(hdr, secret, t) ==
    IF ~HasPrefix(hdr.text, BearerPrefix)
    THEN [ok |-> FALSE, status |-> 401, error |-> ErrMissingBearer, userID |-> 0, email |-> <<>>]
    ELSE IF ~ParseWithClaims(TrimPrefix(hdr.text, BearerPrefix), hdr.tok, secret, t)
    THEN [ok |-> FALSE, status |-> 401, error |-> ErrInvalidToken, userID |-> 0, email |-> <<>>]
    ELSE [ok |-> TRUE, status |-> 0, error |-> NoError,
          userID |-> hdr.tok.sub, email |-> hdr.tok.email]

\* ------------------------------------------------------------------- state
VARIABLES
    userRepoKind,   \* main: which UserRepository was constructed, "mem" or "sqlite"
    now,            \* the wall clock, in ticks
    users,          \* memUserRepo.users: id -> User
    emailIdx,       \* memUserRepo.emailIdx: email -> id
    userMu,         \* memUserRepo.mu: [w: the writer or "", r: the readers]
    userRows,       \* sqlite table user_rows
    boardRepoKind,  \* main: which BoardRepository was constructed, "mem" or "sqlite"
    boards,         \* memBoardRepo.boards: id -> Board
    boardMu,        \* memBoardRepo.mu
    boardRows,      \* sqlite table board_rows
    boardIDs,       \* how many board IDs generateID has handed out
    deleted,        \* history: the ids of the boards a Delete has removed
    pc,             \* each worker's position in its request
    loc,            \* each worker's auth request and locals
    resp,           \* each worker's response to an auth request
    breq,           \* each worker's board request and locals
    bresp           \* each worker's response to a board request

userVars == <<userRepoKind, users, emailIdx, userMu, userRows, loc, resp>>
boardVars == <<boardRepoKind, boards, boardMu, boardRows, boardIDs, deleted, breq, bresp>>
vars == <<now, pc, userVars, boardVars>>

EmptyBoard == [id |-> 0, title |-> <<>>, createdAt |-> 0, updatedAt |-> 0]

NoBoardResp == [status |-> 0, error |-> NoError, board |-> EmptyBoard, list |-> <<>>]

IdleReq == [op |-> "", auth |-> NoAuth, handled |-> FALSE,
            called |-> FALSE, id |-> 0, rawTitle |-> <<>>, bodyOK |-> TRUE, title |-> <<>>,
            row |-> EmptyBoard, stamp |-> 0, list |-> <<>>, err |-> NoError, fault |-> FALSE]

NoResp == [status |-> 0, error |-> NoError, user |-> EmptyUser, token |-> NoToken]

IdleLoc == [op |-> "", rawEmail |-> <<>>, email |-> <<>>, password |-> <<>>, hash |-> EmptyHash,
            user |-> EmptyUser, err |-> NoError, svcErr |-> NoError, fault |-> FALSE,
            regd |-> {}, issuedAt |-> 0, usedAt |-> 0, hdr |-> NoHeader, auth |-> NoAuth]

FreeMu == [w |-> "", r |-> {}]

Init ==
    /\ userRepoKind \in {"mem", "sqlite"}
    /\ now = 0
    /\ users = <<>>
    /\ emailIdx = <<>>
    /\ userMu = FreeMu
    /\ userRows = {}
    /\ boardRepoKind \in {"mem", "sqlite"}
    /\ boards = <<>>
    /\ boardMu = FreeMu
    /\ boardRows = {}
    /\ boardIDs = 0
    /\ deleted = {}
    /\ pc = [p \in Procs |-> "idle"]
    /\ loc = [p \in Procs |-> IdleLoc]
    /\ resp = [p \in Procs |-> NoResp]
    /\ breq = [p \in Procs |-> IdleReq]
    /\ bresp = [p \in Procs |-> NoBoardResp]

\* every user record the store holds, whichever implementation
StoredUsers ==
    IF userRepoKind = "mem" THEN {users[i] : i \in DOMAIN users} ELSE userRows

UsersWithEmail(e) == {u \in StoredUsers : u.email = e}

\* the users that registered with this email and this password
Registered(e, pw) == {u \in UsersWithEmail(e) : u.passwordHash.pw = pw}

\* generateID: a UUID no record has yet
FreshUserIDs == (1..MaxUsers) \ {u.id : u \in StoredUsers}

Put(f, k, v) == [x \in DOMAIN f \cup {k} |-> IF x = k THEN v ELSE f[x]]

\* the JSON the auth handlers write for a user: id, email, createdAt
UserJSON(u) == [id |-> u.id, email |-> u.email, passwordHash |-> EmptyHash,
                createdAt |-> u.createdAt]

RegisterFlow == {"regCreate", "ucCheck", "ucPutUser", "ucPutIdx", "usInsert"}


\* ------------------------------------------------- POST /auth/register
\* the status AuthHandler.register gives a Register error
RegisterErrorStatus(msg) == IF Contains(msg, "exists") THEN 409 ELSE 400

\* AuthHandler.register up to the call of users.Create: bind the body, then
\* authService.Register normalises, validates and hashes; an error of the
\* hashing is returned before users.Create is called.  outcome: how
\* GenerateFromPassword ends.
StartRegister(p, rawEmail, password, bodyOK, outcome) ==
    /\ pc[p] = "idle"
    /\ Cardinality(StoredUsers) + Cardinality({q \in Procs : pc[q] \in RegisterFlow}) < MaxUsers
    /\ outcome \in GenerateOutcomes(password)
    /\ LET email == TrimSpace(ToLower(rawEmail))
           h == GenerateFromPassword(password, outcome)
       IN
       IF ~bodyOK
       THEN /\ resp' = [resp EXCEPT ![p] = [NoResp EXCEPT !.status = 400, !.error = ErrInvalidBody]]
            /\ loc' = [loc EXCEPT ![p] = [IdleLoc EXCEPT !.op = "badbody"]]
            /\ pc' = [pc EXCEPT ![p] = "done"]
       ELSE IF email = <<>> \/ password = <<>>
       THEN /\ resp' = [resp EXCEPT ![p] = [NoResp EXCEPT !.status = 400,
                                                   !.error = ErrEmailPasswordRequired]]
            /\ loc' = [loc EXCEPT ![p] = [IdleLoc EXCEPT !.op = "register", !.rawEmail = rawEmail,
                                                  !.email = email,
                                                  !.password = password,
                                                  !.svcErr = ErrEmailPasswordRequired]]
            /\ pc' = [pc EXCEPT ![p] = "done"]
       ELSE IF h.err # NoError
       THEN /\ resp' = [resp EXCEPT ![p] = [NoResp EXCEPT !.status = RegisterErrorStatus(h.err),
                                                   !.error = h.err]]
            /\ loc' = [loc EXCEPT ![p] = [IdleLoc EXCEPT !.op = "register", !.rawEmail = rawEmail,
                                                  !.email = email,
                                                  !.password = password,
                                                  !.svcErr = h.err]]
            /\ pc' = [pc EXCEPT ![p] = "done"]
       ELSE /\ loc' = [loc EXCEPT ![p] = [IdleLoc EXCEPT !.op = "register", !.rawEmail = rawEmail,
                                                  !.email = email,
                                                  !.password = password,
                                                  !.hash = h.hash]]
            /\ pc' = [pc EXCEPT ![p] = "regCreate"]
            /\ UNCHANGED resp
    /\ UNCHANGED boardVars /\ UNCHANGED <<userRepoKind, now, users, emailIdx, userMu, userRows>>

\* memUserRepo.Create: r.mu.Lock()
MemUserCreateLock(p) ==
    /\ pc[p] = "regCreate"
    /\ userRepoKind = "mem"
    /\ userMu = FreeMu
    /\ userMu' = [userMu EXCEPT !.w = p]
    /\ pc' = [pc EXCEPT ![p] = "ucCheck"]
    /\ UNCHANGED boardVars /\ UNCHANGED <<userRepoKind, now, users, emailIdx, userRows, loc, resp>>

\* memUserRepo.Create: the emailIdx lookup; on a hit return ErrUserExists (the
\* deferred Unlock runs), else build the user
MemUserCreateCheck(p) ==
    /\ pc[p] = "ucCheck"
    /\ IF loc[p].email \in DOMAIN emailIdx
       THEN /\ loc' = [loc EXCEPT ![p].user = EmptyUser, ![p].err = ErrUserExists]
            /\ userMu' = FreeMu
            /\ pc' = [pc EXCEPT ![p] = "regReturn"]
       ELSE /\ \E id \in FreshUserIDs :
                loc' = [loc EXCEPT ![p].user = [id |-> id, email |-> loc[p].email,
                                                passwordHash |-> loc[p].hash,
                                                createdAt |-> now]]
            /\ pc' = [pc EXCEPT ![p] = "ucPutUser"]
            /\ UNCHANGED userMu
    /\ UNCHANGED boardVars /\ UNCHANGED <<userRepoKind, now, users, emailIdx, userRows, resp>>

\* memUserRepo.Create: r.users[u.ID] = u
MemUserCreatePutUser(p) ==
    /\ pc[p] = "ucPutUser"
    /\ users' = Put(users, loc[p].user.id, loc[p].user)
    /\ pc' = [pc EXCEPT ![p] = "ucPutIdx"]
    /\ UNCHANGED boardVars /\ UNCHANGED <<userRepoKind, now, emailIdx, userMu, userRows, loc, resp>>

\* memUserRepo.Create: r.emailIdx[email] = u.ID; return u, nil (Unlock)
MemUserCreatePutIdx(p) ==
    /\ pc[p] = "ucPutIdx"
    /\ emailIdx' = Put(emailIdx, loc[p].email, loc[p].user.id)
    /\ userMu' = FreeMu
    /\ pc' = [pc EXCEPT ![p] = "regReturn"]
    /\ UNCHANGED boardVars /\ UNCHANGED <<userRepoKind, now, users, userRows, loc, resp>>

\* the ids of the rows sqliteUserRep.Create has built and not yet inserted
PendingUserIDs == {loc[q].user.id : q \in {r \in Procs : pc[r] = "usInsert"}}

\* sqliteUserRep.Create: now := time.Now(); rw := userRow{ID: generateID(),
\* ...}, built before the INSERT is sent
SqliteUserCreateBuild(p) ==
    /\ pc[p] = "regCreate"
    /\ userRepoKind = "sqlite"
    /\ \E id \in FreshUserIDs \ PendingUserIDs :
          loc' = [loc EXCEPT ![p].user = [id |-> id, email |-> loc[p].email,
                                          passwordHash |-> loc[p].hash,
                                          createdAt |-> now]]
    /\ pc' = [pc EXCEPT ![p] = "usInsert"]
    /\ UNCHANGED boardVars /\ UNCHANGED <<userRepoKind, now, users, emailIdx, userMu, userRows, resp>>

\* sqliteUserRep.Create: r.db.Create(&rw), one INSERT into user_rows, whose
\* only constraint is the primary key id; dbFails is the statement ending in
\* an error
SqliteUserCreate(p, dbFails) ==
    /\ pc[p] = "usInsert"
    /\ IF dbFails
       THEN /\ loc' = [loc EXCEPT ![p].user = EmptyUser, ![p].err = ErrDB, ![p].fault = TRUE]
            /\ UNCHANGED userRows
       ELSE /\ userRows' = userRows \cup {loc[p].user}
            /\ UNCHANGED loc
    /\ pc' = [pc EXCEPT ![p] = "regReturn"]
    /\ UNCHANGED boardVars /\ UNCHANGED <<userRepoKind, now, users, emailIdx, userMu, resp>>

\* authService.Register after users.Create, and AuthHandler.register's response
RegisterReturn(p) ==
    /\ pc[p] = "regReturn"
    /\ IF loc[p].err # NoError
       THEN /\ resp' = [resp EXCEPT ![p] = [NoResp EXCEPT
                            !.status = RegisterErrorStatus(loc[p].err),
                            !.error = loc[p].err]]
            /\ loc' = [loc EXCEPT ![p].svcErr = loc[p].err]
       ELSE /\ resp' = [resp EXCEPT ![p] = [status |-> 201, error |-> NoError,
                            user |-> UserJSON(loc[p].user),
                            token |-> issueToken(loc[p].user, jwtSecret, now)]]
            /\ loc' = [loc EXCEPT ![p].issuedAt = now]
    /\ pc' = [pc EXCEPT ![p] = "done"]
    /\ UNCHANGED boardVars /\ UNCHANGED <<userRepoKind, now, users, emailIdx, userMu, userRows>>

\* ---------------------------------------------------- POST /auth/login
\* AuthHandler.login up to the call of users.GetByEmail.  regd: the users that
\* had registered with this email and this password when the login began.
StartLogin(p, rawEmail, password, bodyOK) ==
    /\ pc[p] = "idle"
    /\ IF ~bodyOK
       THEN /\ resp' = [resp EXCEPT ![p] = [NoResp EXCEPT !.status = 400, !.error = ErrInvalidBody]]
            /\ loc' = [loc EXCEPT ![p] = [IdleLoc EXCEPT !.op = "badbody"]]
            /\ pc' = [pc EXCEPT ![p] = "done"]
       ELSE /\ loc' = [loc EXCEPT ![p] = [IdleLoc EXCEPT !.op = "login", !.rawEmail = rawEmail,
                                                  !.email = TrimSpace(ToLower(rawEmail)),
                                                  !.password = password,
                                                  !.regd = Registered(TrimSpace(ToLower(rawEmail)), password)]]
            /\ pc' = [pc EXCEPT ![p] = "lgGet"]
            /\ UNCHANGED resp
    /\ UNCHANGED boardVars /\ UNCHANGED <<userRepoKind, now, users, emailIdx, userMu, userRows>>

MemUserGetNoLock(p) ==
    /\ pc[p] = "lgGet"
    /\ userRepoKind = "mem"
    /\ userMu' = [userMu EXCEPT !.r = @ \cup {p}]
    /\ pc' = [pc EXCEPT ![p] = "geIdx"]
    /\ UNCHANGED boardVars /\ UNCHANGED <<userRepoKind, now, users, emailIdx, userRows, loc, resp>>

\* memUserRepo.GetByEmail: r.mu.RLock()
MemUserGetRLock(p) ==
    /\ pc[p] = "lgGet"
    /\ userRepoKind = "mem"
    /\ userMu.w = ""
    /\ userMu' = [userMu EXCEPT !.r = @ \cup {p}]
    /\ pc' = [pc EXCEPT ![p] = "geIdx"]
    /\ UNCHANGED boardVars /\ UNCHANGED <<userRepoKind, now, users, emailIdx, userRows, loc, resp>>

\* memUserRepo.GetByEmail: id, ok := r.emailIdx[email]; a miss returns
\* ErrNotFound (RUnlock)
MemUserGetIdx(p) ==
    /\ pc[p] = "geIdx"
    /\ IF loc[p].email \in DOMAIN emailIdx
       THEN /\ loc' = [loc EXCEPT ![p].user = [EmptyUser EXCEPT !.id = emailIdx[loc[p].email]]]
            /\ pc' = [pc EXCEPT ![p] = "geUser"]
            /\ UNCHANGED userMu
       ELSE /\ loc' = [loc EXCEPT ![p].user = EmptyUser, ![p].err = ErrNotFound]
            /\ userMu' = [userMu EXCEPT !.r = @ \ {p}]
            /\ pc' = [pc EXCEPT ![p] = "lgReturn"]
    /\ UNCHANGED boardVars /\ UNCHANGED <<userRepoKind, now, users, emailIdx, userRows, resp>>

\* memUserRepo.GetByEmail: return r.users[id], nil (RUnlock); a missing key
\* reads as the zero User
MemUserGetUser(p) ==
    /\ pc[p] = "geUser"
    /\ loc' = [loc EXCEPT ![p].user = IF loc[p].user.id \in DOMAIN users
                                      THEN users[loc[p].user.id] ELSE EmptyUser]
    /\ userMu' = [userMu EXCEPT !.r = @ \ {p}]
    /\ pc' = [pc EXCEPT ![p] = "lgReturn"]
    /\ UNCHANGED boardVars /\ UNCHANGED <<userRepoKind, now, users, emailIdx, userRows, resp>>

\* gorm First(&rw, "email = ?", email): the matching row of least primary key
FirstUserByEmail(e) ==
    CHOOSE u \in UsersWithEmail(e) : \A v \in UsersWithEmail(e) : u.id <= v.id

\* sqliteUserRep.GetByEmail: no row is ErrNotFound; any other error of the
\* SELECT returns the zero User and a nil error
SqliteUserGetByEmail(p, dbFails) ==
    /\ pc[p] = "lgGet"
    /\ userRepoKind = "sqlite"
    /\ IF dbFails
       THEN loc' = [loc EXCEPT ![p].user = EmptyUser, ![p].err = NoError, ![p].fault = TRUE]
       ELSE IF UsersWithEmail(loc[p].email) = {}
       THEN loc' = [loc EXCEPT ![p].user = EmptyUser, ![p].err = ErrNotFound]
       ELSE loc' = [loc EXCEPT ![p].user = FirstUserByEmail(loc[p].email)]
    /\ pc' = [pc EXCEPT ![p] = "lgReturn"]
    /\ UNCHANGED boardVars /\ UNCHANGED <<userRepoKind, now, users, emailIdx, userMu, userRows, resp>>

NoResult == [user |-> EmptyUser, token |-> NoToken, err |-> NoError]

\* authService.Login once users.GetByEmail has returned (u, err)
Login(u, err, password, secret, t) ==
    IF err # NoError
    THEN [NoResult EXCEPT !.err = ErrInvalidCredentials]
    ELSE IF ~CompareHashAndPassword(u.passwordHash, password)
    THEN [NoResult EXCEPT !.err = ErrInvalidCredentials]
    ELSE [user |-> u, token |-> issueToken(u, secret, t), err |-> NoError]

\* AuthHandler.login's response to what the service returned
LoginResponse(r) ==
    IF r.err # NoError
    THEN [NoResp EXCEPT !.status = 401, !.error = ErrInvalidCredentials]
    ELSE [status |-> 200, error |-> NoError, user |-> UserJSON(r.user), token |-> r.token]

LoginReturn(p) ==
    /\ pc[p] = "lgReturn"
    /\ LET r == Login(loc[p].user, loc[p].err, loc[p].password, jwtSecret, now) IN
        /\ resp' = [resp EXCEPT ![p] = LoginResponse(r)]
        /\ loc' = [loc EXCEPT ![p].svcErr = r.err, ![p].issuedAt = now]
    /\ pc' = [pc EXCEPT ![p] = "done"]
    /\ UNCHANGED boardVars /\ UNCHANGED <<userRepoKind, now, users, emailIdx, userMu, userRows>>

\* ------------------------------------------- a request with the token
\* the Authorization headers requests carry: none, a wrong scheme, no token,
\* a malformed token, and tokens for one user: as issueToken makes them at
\* time 0 and one TTL before, under another key, under other signing methods
SampleUser == [EmptyUser EXCEPT !.id = 1, !.email = <<"a">>]
SampleToken == issueToken(SampleUser, jwtSecret, 0)
TokenInputs ==
    {SampleToken,
     issueToken(SampleUser, jwtSecret, 0 - tokenTTL),
     [SampleToken EXCEPT !.key = OtherSecret],
     [SampleToken EXCEPT !.alg = "HS512"],
     [SampleToken EXCEPT !.alg = "none", !.key = ""],
     [SampleToken EXCEPT !.alg = "RS256", !.key = OtherSecret]}
HeaderInputs ==
    {NoHeader,
     [text |-> <<"b", "e", "a", "r", "e", "r", " ">>, tok |-> SampleToken],
     [text |-> <<"B", "e", "a", "r", "e", "r">>, tok |-> SampleToken],
     [text |-> BearerPrefix, tok |-> NoToken],
     [text |-> BearerPrefix \o <<"x">>, tok |-> NoToken]}
    \cup {BearerHeader(t) : t \in TokenInputs}

\* The client of a finished register or login sends the token it was given to
\* a protected route: AuthRequired runs on "Bearer " + token.
UseToken(p) ==
    /\ pc[p] = "done"
    /\ resp[p].token # NoToken
    /\ loc' = [loc EXCEPT ![p].usedAt = now, ![p].hdr = BearerHeader(resp[p].token),
                          ![p].auth = AuthRequired(BearerHeader(resp[p].token), jwtSecret, now)]
    /\ pc' = [pc EXCEPT ![p] = "authed"]
    /\ UNCHANGED boardVars /\ UNCHANGED <<userRepoKind, now, users, emailIdx, userMu, userRows, resp>>

\* A client sends any Authorization header to a protected route: AuthRequired
\* runs on it.
PresentHeader(p, hdr) ==
    /\ pc[p] = "idle"
    /\ loc' = [loc EXCEPT ![p] = [IdleLoc EXCEPT !.op = "present", !.usedAt = now, !.hdr = hdr,
                                          !.auth = AuthRequired(hdr, jwtSecret, now)]]
    /\ pc' = [pc EXCEPT ![p] = "authed"]
    /\ UNCHANGED boardVars /\ UNCHANGED <<userRepoKind, now, users, emailIdx, userMu, userRows, resp>>

\* the response is written; the worker is free for the next request
Finish(p) ==
    /\ pc[p] \in {"done", "authed"}
    /\ pc' = [pc EXCEPT ![p] = "idle"]
    /\ loc' = [loc EXCEPT ![p] = IdleLoc]
    /\ resp' = [resp EXCEPT ![p] = NoResp]
    /\ UNCHANGED boardVars /\ UNCHANGED <<userRepoKind, now, users, emailIdx, userMu, userRows>>

\* time passes
Tick ==
    /\ now < MaxTime
    /\ now' = now + 1
    /\ UNCHANGED <<pc, userVars, boardVars>>

\* worker p takes a POST /auth/register or a POST /auth/login, its password
\* drawn from the given sets
AuthStart(p, registerPasswords, passwords) ==
    \/ \E e \in RawEmails, pw \in registerPasswords, b \in BOOLEAN,
          o \in {"hash", "random", "tooLong"} :
        StartRegister(p, e, pw, b, o)
    \/ \E e \in RawEmails, pw \in passwords, b \in BOOLEAN : StartLogin(p, e, pw, b)

\* the steps of worker p inside a register or a login request
AuthRun(p) ==
    \/ MemUserCreateLock(p)
    \/ MemUserCreateCheck(p)
    \/ MemUserCreatePutUser(p)
    \/ MemUserCreatePutIdx(p)
    \/ SqliteUserCreateBuild(p)
    \/ \E f \in BOOLEAN : SqliteUserCreate(p, f)
    \/ RegisterReturn(p)
    \/ MemUserGetRLock(p)
    \/ MemUserGetIdx(p)
    \/ MemUserGetUser(p)
    \/ \E f \in BOOLEAN : SqliteUserGetByEmail(p, f)
    \/ LoginReturn(p)
    \/ Finish(p)

\* The auth requests never reach the board store: it is the one main
\* constructs.
InitAuth == Init /\ boardRepoKind = "sqlite"

\* concurrent register and login requests
Next ==
    \E p \in PairProcs :
        \/ AuthStart(p, ConcurrentRegisterPasswords, ConcurrentPasswords)
        \/ AuthRun(p)

Spec == InitAuth /\ [][Next]_vars

\* one client at a time, while time passes; it may present the token it got
ClockProcs == {"w1"}

NextClock ==
    \/ Tick
    \/ \E p \in ClockProcs :
        \/ AuthStart(p, RegisterPasswords, Passwords)
        \/ AuthRun(p)
        \/ UseToken(p)
        \/ \E h \in HeaderInputs : PresentHeader(p, h)

SpecClock == InitAuth /\ [][NextClock]_vars


\* ================================================================ boards
\* every board record the store holds, whichever implementation
StoredBoards ==
    IF boardRepoKind = "mem" THEN {boards[i] : i \in DOMAIN boards} ELSE boardRows

BoardsWithID(id) == {b \in StoredBoards : b.id = id}

Remove(f, k) == [x \in DOMAIN f \ {k} |-> f[x]]

\* the orders in which a set of records may be listed
Perms(S) ==
    {q \in [1..Cardinality(S) -> S] : \A i \in DOMAIN q : \A j \in DOMAIN q : i # j => q[i] # q[j]}

\* ORDER BY created_at DESC
CreatedDesc(q) == \A i \in 1..(Len(q) - 1) : q[i].createdAt >= q[i + 1].createdAt

ValidateTitleNoTrim(rawTitle) ==
    [title |-> rawTitle, err |-> IF rawTitle = <<>> THEN ErrTitleRequired ELSE NoError]

ValidateTitleTrimLeft(rawTitle) ==
    LET title == TrimLeft(rawTitle) IN
    [title |-> title, err |-> IF title = <<>> THEN ErrTitleRequired ELSE NoError]

\* boardService.CreateBoard / UpdateBoard before the call of the repository:
\* the title trimmed, and "title required" when nothing is left
ValidateTitle(rawTitle) ==
    LET title == TrimSpace(rawTitle) IN
    [title |-> title, err |-> IF title = <<>> THEN ErrTitleRequired ELSE NoError]

\* where BoardHandler.list/create/get/update/delete first call the repository
RepoEntry(op) ==
    IF op = "list" THEN "blList"
    ELSE IF op = "get" THEN "bgGet"
    ELSE IF op = "create" THEN "bcBuild"
    ELSE IF op = "update" THEN "buUpdate" ELSE "bdDelete"

\* A request to a route of the private group, up to its first repository
\* call.  AuthRequired runs first and either aborts with 401 or calls c.Next();
\* then the handler binds the body and the service validates the title.
StartBoardRequest(p, op, hdr, id, rawTitle, bodyOK) ==
    /\ pc[p] = "idle"
    /\ LET a == AuthRequired(hdr, jwtSecret, now)
           v == ValidateTitle(rawTitle)
           r == [IdleReq EXCEPT !.op = op, !.auth = a]
       IN
       IF ~a.ok
       THEN /\ breq' = [breq EXCEPT ![p] = r]
            /\ bresp' = [bresp EXCEPT ![p] = [NoBoardResp EXCEPT !.status = a.status,
                                                        !.error = a.error]]
            /\ pc' = [pc EXCEPT ![p] = "bdone"]
       ELSE IF op \in {"create", "update"} /\ ~bodyOK
       THEN /\ breq' = [breq EXCEPT ![p] = [r EXCEPT !.handled = TRUE, !.id = id,
                                                    !.bodyOK = FALSE]]
            /\ bresp' = [bresp EXCEPT ![p] = [NoBoardResp EXCEPT !.status = 400,
                                                        !.error = ErrInvalidBody]]
            /\ pc' = [pc EXCEPT ![p] = "bdone"]
       ELSE IF op \in {"create", "update"} /\ v.err # NoError
       THEN /\ breq' = [breq EXCEPT ![p] = [r EXCEPT !.handled = TRUE, !.id = id,
                                                    !.rawTitle = rawTitle, !.err = v.err]]
            /\ bresp' = [bresp EXCEPT ![p] = [NoBoardResp EXCEPT !.status = 400,
                                                        !.error = v.err]]
            /\ pc' = [pc EXCEPT ![p] = "bdone"]
       ELSE /\ breq' = [breq EXCEPT ![p] =
                  [r EXCEPT !.handled = TRUE, !.called = TRUE, !.id = id,
                            !.rawTitle = rawTitle, !.title = v.title]]
            /\ pc' = [pc EXCEPT ![p] = RepoEntry(op)]
            /\ UNCHANGED bresp
    /\ UNCHANGED <<now, userVars, boardRepoKind, deleted, boards, boardMu, boardRows, boardIDs>>

\* memBoardRepo.Create / sqliteBoardRepo.Create: now := time.Now() and the
\* record with ID generateID(), built before the lock is taken or the INSERT
\* is sent
BoardCreateBuild(p) ==
    /\ pc[p] = "bcBuild"
    /\ boardIDs' = boardIDs + 1
    /\ breq' = [breq EXCEPT ![p].row = [id |-> boardIDs + 1, title |-> breq[p].title,
                                        createdAt |-> now, updatedAt |-> now]]
    /\ pc' = [pc EXCEPT ![p] = "bcCreate"]
    /\ UNCHANGED <<now, userVars, boardRepoKind, deleted, boards, boardMu, boardRows, bresp>>

\* ---------------------------------------------------------- memBoardRepo
MemBoardRNoLock(p) ==
    /\ pc[p] \in {"blList", "bgGet"}
    /\ boardRepoKind = "mem"
    /\ boardMu' = [boardMu EXCEPT !.r = @ \cup {p}]
    /\ pc' = [pc EXCEPT ![p] = IF pc[p] = "blList" THEN "blRead" ELSE "bgRead"]
    /\ UNCHANGED <<now, userVars, boardRepoKind, deleted, boards, boardRows, boardIDs, breq, bresp>>

\* List, Get: r.mu.RLock()
MemBoardRLock(p) ==
    /\ pc[p] \in {"blList", "bgGet"}
    /\ boardRepoKind = "mem"
    /\ boardMu.w = ""
    /\ boardMu' = [boardMu EXCEPT !.r = @ \cup {p}]
    /\ pc' = [pc EXCEPT ![p] = IF pc[p] = "blList" THEN "blRead" ELSE "bgRead"]
    /\ UNCHANGED <<now, userVars, boardRepoKind, deleted, boards, boardRows, boardIDs, breq, bresp>>

\* memBoardRepo.List: the map's values, in the order the map iteration gives
MemBoardListRead(p) ==
    /\ pc[p] = "blRead"
    /\ \E q \in Perms(StoredBoards) : breq' = [breq EXCEPT ![p].list = q]
    /\ boardMu' = [boardMu EXCEPT !.r = @ \ {p}]
    /\ pc' = [pc EXCEPT ![p] = "bReturn"]
    /\ UNCHANGED <<now, userVars, boardRepoKind, deleted, boards, boardRows, boardIDs, bresp>>

\* memBoardRepo.Get
MemBoardGetRead(p) ==
    /\ pc[p] = "bgRead"
    /\ IF breq[p].id \in DOMAIN boards
       THEN breq' = [breq EXCEPT ![p].row = boards[breq[p].id]]
       ELSE breq' = [breq EXCEPT ![p].row = EmptyBoard, ![p].err = ErrNotFound]
    /\ boardMu' = [boardMu EXCEPT !.r = @ \ {p}]
    /\ pc' = [pc EXCEPT ![p] = "bReturn"]
    /\ UNCHANGED <<now, userVars, boardRepoKind, deleted, boards, boardRows, boardIDs, bresp>>

\* Create, Update, Delete: r.mu.Lock()
MemBoardLock(p) ==
    /\ pc[p] \in {"bcCreate", "buUpdate", "bdDelete"}
    /\ boardRepoKind = "mem"
    /\ boardMu = FreeMu
    /\ boardMu' = [boardMu EXCEPT !.w = p]
    /\ pc' = [pc EXCEPT ![p] = IF pc[p] = "bcCreate" THEN "bcPut"
                               ELSE IF pc[p] = "buUpdate" THEN "buRead" ELSE "bdApply"]
    /\ UNCHANGED <<now, userVars, boardRepoKind, deleted, boards, boardRows, boardIDs, breq, bresp>>

\* memBoardRepo.Create: r.boards[b.ID] = b; r.mu.Unlock()
MemBoardCreatePut(p) ==
    /\ pc[p] = "bcPut"
    /\ boards' = Put(boards, breq[p].row.id, breq[p].row)
    /\ boardMu' = FreeMu
    /\ pc' = [pc EXCEPT ![p] = "bReturn"]
    /\ UNCHANGED <<now, userVars, boardRepoKind, deleted, boardRows, boardIDs, breq, bresp>>

\* memBoardRepo.Update: b, ok := r.boards[id]; a miss returns ErrNotFound
MemBoardUpdateRead(p) ==
    /\ pc[p] = "buRead"
    /\ IF breq[p].id \in DOMAIN boards
       THEN /\ breq' = [breq EXCEPT ![p].row = boards[breq[p].id]]
            /\ pc' = [pc EXCEPT ![p] = "buWrite"]
            /\ UNCHANGED boardMu
       ELSE /\ breq' = [breq EXCEPT ![p].row = EmptyBoard, ![p].err = ErrNotFound]
            /\ boardMu' = FreeMu
            /\ pc' = [pc EXCEPT ![p] = "bReturn"]
    /\ UNCHANGED <<now, userVars, boardRepoKind, deleted, boards, boardRows, boardIDs, bresp>>

MemBoardUpdateKeepsTime(p) ==
    /\ pc[p] = "buWrite"
    /\ LET b == [breq[p].row EXCEPT !.title = breq[p].title] IN
        /\ boards' = Put(boards, breq[p].id, b)
        /\ breq' = [breq EXCEPT ![p].row = b]
    /\ boardMu' = FreeMu
    /\ pc' = [pc EXCEPT ![p] = "bReturn"]
    /\ UNCHANGED <<now, userVars, boardRepoKind, deleted, boardRows, boardIDs, bresp>>

\* memBoardRepo.Update: b.Title = title; b.UpdatedAt = time.Now();
\* r.boards[id] = b; return b, nil
MemBoardUpdateWrite(p) ==
    /\ pc[p] = "buWrite"
    /\ LET b == [breq[p].row EXCEPT !.title = breq[p].title, !.updatedAt = now] IN
        /\ boards' = Put(boards, breq[p].id, b)
        /\ breq' = [breq EXCEPT ![p].row = b]
    /\ boardMu' = FreeMu
    /\ pc' = [pc EXCEPT ![p] = "bReturn"]
    /\ UNCHANGED <<now, userVars, boardRepoKind, deleted, boardRows, boardIDs, bresp>>

MemBoardDeleteIdempotent(p) ==
    /\ pc[p] = "bdApply"
    /\ IF breq[p].id \in DOMAIN boards
       THEN /\ boards' = Remove(boards, breq[p].id)
            /\ deleted' = deleted \cup {breq[p].id}
       ELSE UNCHANGED <<boards, deleted>>
    /\ boardMu' = FreeMu
    /\ pc' = [pc EXCEPT ![p] = "bReturn"]
    /\ UNCHANGED <<now, userVars, boardRepoKind, boardRows, boardIDs, breq, bresp>>

\* memBoardRepo.Delete
MemBoardDeleteApply(p) ==
    /\ pc[p] = "bdApply"
    /\ IF breq[p].id \in DOMAIN boards
       THEN /\ boards' = Remove(boards, breq[p].id)
            /\ deleted' = deleted \cup {breq[p].id}
            /\ UNCHANGED breq
       ELSE /\ breq' = [breq EXCEPT ![p].err = ErrNotFound]
            /\ UNCHANGED <<boards, deleted>>
    /\ boardMu' = FreeMu
    /\ pc' = [pc EXCEPT ![p] = "bReturn"]
    /\ UNCHANGED <<now, userVars, boardRepoKind, boardRows, boardIDs, bresp>>

\* ------------------------------------------------------- sqliteBoardRepo
\* sqliteBoardRepo.List: SELECT ... ORDER BY created_at desc
SqliteBoardList(p, dbFails) ==
    /\ pc[p] = "blList"
    /\ boardRepoKind = "sqlite"
    /\ IF dbFails
       THEN breq' = [breq EXCEPT ![p].err = ErrDB, ![p].fault = TRUE]
       ELSE \E q \in Perms(boardRows) :
              /\ CreatedDesc(q)
              /\ breq' = [breq EXCEPT ![p].list = q]
    /\ pc' = [pc EXCEPT ![p] = "bReturn"]
    /\ UNCHANGED <<now, userVars, boardRepoKind, deleted, boards, boardMu, boardRows, boardIDs, bresp>>

\* sqliteBoardRepo.Get: First(&rw, "id=?", id)
SqliteBoardGet(p, dbFails) ==
    /\ pc[p] = "bgGet"
    /\ boardRepoKind = "sqlite"
    /\ IF dbFails
       THEN breq' = [breq EXCEPT ![p].err = ErrDB, ![p].fault = TRUE]
       ELSE IF BoardsWithID(breq[p].id) = {}
       THEN breq' = [breq EXCEPT ![p].err = ErrNotFound]
       ELSE \E b \in BoardsWithID(breq[p].id) : breq' = [breq EXCEPT ![p].row = b]
    /\ pc' = [pc EXCEPT ![p] = "bReturn"]
    /\ UNCHANGED <<now, userVars, boardRepoKind, deleted, boards, boardMu, boardRows, boardIDs, bresp>>

\* sqliteBoardRepo.Create: one INSERT
SqliteBoardCreate(p, dbFails) ==
    /\ pc[p] = "bcCreate"
    /\ boardRepoKind = "sqlite"
    /\ IF dbFails
       THEN /\ breq' = [breq EXCEPT ![p].row = EmptyBoard, ![p].err = ErrDB, ![p].fault = TRUE]
            /\ UNCHANGED boardRows
       ELSE /\ boardRows' = boardRows \cup {breq[p].row}
            /\ UNCHANGED breq
    /\ pc' = [pc EXCEPT ![p] = "bReturn"]
    /\ UNCHANGED <<now, userVars, boardRepoKind, deleted, boards, boardMu, boardIDs, bresp>>

\* sqliteBoardRepo.Update: First(&rw, "id=?", id)
SqliteBoardUpdateFirst(p, dbFails) ==
    /\ pc[p] = "buUpdate"
    /\ boardRepoKind = "sqlite"
    /\ IF dbFails
       THEN /\ breq' = [breq EXCEPT ![p].err = ErrDB, ![p].fault = TRUE]
            /\ pc' = [pc EXCEPT ![p] = "bReturn"]
       ELSE IF BoardsWithID(breq[p].id) = {}
       THEN /\ breq' = [breq EXCEPT ![p].err = ErrNotFound]
            /\ pc' = [pc EXCEPT ![p] = "bReturn"]
       ELSE /\ \E b \in BoardsWithID(breq[p].id) : breq' = [breq EXCEPT ![p].row = b]
            /\ pc' = [pc EXCEPT ![p] = "suStamp"]
    /\ UNCHANGED <<now, userVars, boardRepoKind, deleted, boards, boardMu, boardRows, boardIDs, bresp>>

\* sqliteBoardRepo.Update: rw.Title = title; rw.UpdatedAt = time.Now(); then
\* db.Save(&rw) up to the UPDATE it builds.  UpdatedAt is gorm's
\* auto-update-time field: Save overwrites it with its own reading of the
\* clock (NowFunc()) while it builds the statement, so the value of
\* time.Now() above is never stored.  stamp is gorm's reading, taken before
\* the statement runs.
SqliteBoardUpdateStamp(p) ==
    /\ pc[p] = "suStamp"
    /\ breq' = [breq EXCEPT ![p].stamp = now]
    /\ pc' = [pc EXCEPT ![p] = "suSave"]
    /\ UNCHANGED <<now, userVars, boardRepoKind, deleted, boards, boardMu, boardRows, boardIDs, bresp>>

\* sqliteBoardRepo.Update: the first statement of db.Save(&rw) runs, UPDATE
\* board_rows SET every column WHERE id = ?, in a transaction of its own; rw
\* has the UpdatedAt of the statement.  When no row was affected, Save goes
\* on to insert the record.
SqliteBoardUpdateSave(p, dbFails) ==
    /\ pc[p] = "suSave"
    /\ LET rw == [breq[p].row EXCEPT !.title = breq[p].title, !.updatedAt = breq[p].stamp] IN
       IF dbFails
       THEN /\ breq' = [breq EXCEPT ![p].row = EmptyBoard, ![p].err = ErrDB, ![p].fault = TRUE]
            /\ pc' = [pc EXCEPT ![p] = "bReturn"]
            /\ UNCHANGED boardRows
       ELSE IF BoardsWithID(rw.id) = {}
       THEN /\ breq' = [breq EXCEPT ![p].row = rw]
            /\ pc' = [pc EXCEPT ![p] = "suInsertStamp"]
            /\ UNCHANGED boardRows
       ELSE /\ boardRows' = (boardRows \ BoardsWithID(rw.id)) \cup {rw}
            /\ breq' = [breq EXCEPT ![p].row = rw]
            /\ pc' = [pc EXCEPT ![p] = "bReturn"]
    /\ UNCHANGED <<now, userVars, boardRepoKind, deleted, boards, boardMu, boardIDs, bresp>>

\* db.Save(&rw) after an UPDATE that affected no row: it builds INSERT ... ON
\* CONFLICT (id) DO UPDATE and reads the clock again (NowFunc()) for the
\* updated_at the DO UPDATE branch assigns.  stamp is that reading.
SqliteBoardUpdateInsertStamp(p) ==
    /\ pc[p] = "suInsertStamp"
    /\ breq' = [breq EXCEPT ![p].stamp = now]
    /\ pc' = [pc EXCEPT ![p] = "suInsert"]
    /\ UNCHANGED <<now, userVars, boardRepoKind, deleted, boards, boardMu, boardRows, boardIDs, bresp>>

\* db.Save(&rw): the INSERT ... ON CONFLICT (id) DO UPDATE runs, in a
\* transaction of its own.  With no row of that id it inserts rw; with one,
\* it sets the row's title to rw's and its updated_at to the clock reading
\* of the INSERT, and leaves created_at.  rw is returned as it was.
SqliteBoardUpdateInsert(p, dbFails) ==
    /\ pc[p] = "suInsert"
    /\ LET rw == breq[p].row IN
       IF dbFails
       THEN /\ breq' = [breq EXCEPT ![p].row = EmptyBoard, ![p].err = ErrDB, ![p].fault = TRUE]
            /\ UNCHANGED boardRows
       ELSE IF BoardsWithID(rw.id) = {}
       THEN /\ boardRows' = boardRows \cup {rw}
            /\ UNCHANGED breq
       ELSE /\ boardRows' = (boardRows \ BoardsWithID(rw.id))
                                \cup {[b EXCEPT !.title = rw.title, !.updatedAt = breq[p].stamp] :
                                        b \in BoardsWithID(rw.id)}
            /\ UNCHANGED breq
    /\ pc' = [pc EXCEPT ![p] = "bReturn"]
    /\ UNCHANGED <<now, userVars, boardRepoKind, deleted, boards, boardMu, boardIDs, bresp>>

SqliteBoardDeleteKeepsRow(p, dbFails) ==
    /\ pc[p] = "bdDelete"
    /\ boardRepoKind = "sqlite"
    /\ IF dbFails
       THEN /\ breq' = [breq EXCEPT ![p].err = ErrDB, ![p].fault = TRUE]
            /\ UNCHANGED deleted
       ELSE IF BoardsWithID(breq[p].id) = {}
       THEN /\ breq' = [breq EXCEPT ![p].err = ErrNotFound]
            /\ UNCHANGED deleted
       ELSE /\ deleted' = deleted \cup {breq[p].id}
            /\ UNCHANGED breq
    /\ pc' = [pc EXCEPT ![p] = "bReturn"]
    /\ UNCHANGED <<now, userVars, boardRepoKind, boards, boardMu, boardRows, boardIDs, bresp>>

\* sqliteBoardRepo.Delete: DELETE ... WHERE id=?; no row affected is ErrNotFound
SqliteBoardDelete(p, dbFails) ==
    /\ pc[p] = "bdDelete"
    /\ boardRepoKind = "sqlite"
    /\ IF dbFails
       THEN /\ breq' = [breq EXCEPT ![p].err = ErrDB, ![p].fault = TRUE]
            /\ UNCHANGED <<boardRows, deleted>>
       ELSE IF BoardsWithID(breq[p].id) = {}
       THEN /\ breq' = [breq EXCEPT ![p].err = ErrNotFound]
            /\ UNCHANGED <<boardRows, deleted>>
       ELSE /\ boardRows' = boardRows \ BoardsWithID(breq[p].id)
            /\ deleted' = deleted \cup {breq[p].id}
            /\ UNCHANGED breq
    /\ pc' = [pc EXCEPT ![p] = "bReturn"]
    /\ UNCHANGED <<now, userVars, boardRepoKind, boards, boardMu, boardIDs, bresp>>

\* ------------------------------------------------- the handlers' responses
\* what BoardHandler.list/create/get/update/delete write once the service
\* has returned
BoardResponse(op, row, list, err) ==
    IF op = "list"
    THEN IF err # NoError THEN [NoBoardResp EXCEPT !.status = 500, !.error = err]
         ELSE [NoBoardResp EXCEPT !.status = 200, !.list = list]
    ELSE IF op = "create"
    THEN IF err # NoError THEN [NoBoardResp EXCEPT !.status = 400, !.error = err]
         ELSE [NoBoardResp EXCEPT !.status = 201, !.board = row]
    ELSE IF op = "get"
    THEN IF err # NoError THEN [NoBoardResp EXCEPT !.status = 404, !.error = ErrNotFound]
         ELSE [NoBoardResp EXCEPT !.status = 200, !.board = row]
    ELSE IF op = "update"
    THEN IF err # NoError THEN [NoBoardResp EXCEPT !.status = 400, !.error = err]
         ELSE [NoBoardResp EXCEPT !.status = 200, !.board = row]
    ELSE IF err # NoError THEN [NoBoardResp EXCEPT !.status = 404, !.error = err]
         ELSE [NoBoardResp EXCEPT !.status = 204]

BoardReturn(p) ==
    /\ pc[p] = "bReturn"
    /\ bresp' = [bresp EXCEPT ![p] = BoardResponse(breq[p].op, breq[p].row, breq[p].list,
                                                   breq[p].err)]
    /\ pc' = [pc EXCEPT ![p] = "bdone"]
    /\ UNCHANGED <<now, userVars, boardRepoKind, deleted, boards, boardMu, boardRows, boardIDs, breq>>

\* the response is written; the worker is free for the next request
FinishBoard(p) ==
    /\ pc[p] = "bdone"
    /\ pc' = [pc EXCEPT ![p] = "idle"]
    /\ breq' = [breq EXCEPT ![p] = IdleReq]
    /\ bresp' = [bresp EXCEPT ![p] = NoBoardResp]
    /\ UNCHANGED <<now, userVars, boardRepoKind, deleted, boards, boardMu, boardRows, boardIDs>>

\* the ids requests address: those of the boards that may ever be created
BoardIDInputs(maxBoards) == 1..maxBoards

\* the headers of the requests to /boards: none, a token of the service, a
\* token signed with another key
BoardHeaderInputs ==
    {NoHeader, BearerHeader(SampleToken), BearerHeader([SampleToken EXCEPT !.key = OtherSecret])}

\* worker p takes a request to a /boards route, its header and title drawn
\* from the given sets; maxBoards bounds the boards ever created
BoardStart(p, maxBoards, headers, titles) ==
    \/ \E h \in headers : StartBoardRequest(p, "list", h, 0, <<>>, TRUE)
    \/ \E h \in headers, id \in BoardIDInputs(maxBoards) :
        \/ StartBoardRequest(p, "get", h, id, <<>>, TRUE)
        \/ StartBoardRequest(p, "delete", h, id, <<>>, TRUE)
    \/ \E h \in headers, t \in titles, b \in BOOLEAN :
        /\ boardIDs + Cardinality({q \in Procs : pc[q] = "bcBuild"}) < maxBoards
        /\ StartBoardRequest(p, "create", h, 0, t, b)
    \/ \E h \in headers, id \in BoardIDInputs(maxBoards), t \in titles, b \in BOOLEAN :
        StartBoardRequest(p, "update", h, id, t, b)

\* the steps of worker p inside a request to a /boards route
BoardRun(p) ==
    \/ BoardCreateBuild(p)
    \/ MemBoardRLock(p)
    \/ MemBoardListRead(p)
    \/ MemBoardGetRead(p)
    \/ MemBoardLock(p)
    \/ MemBoardCreatePut(p)
    \/ MemBoardUpdateRead(p)
    \/ MemBoardUpdateWrite(p)
    \/ MemBoardDeleteApply(p)
    \/ \E f \in BOOLEAN : SqliteBoardList(p, f)
    \/ \E f \in BOOLEAN : SqliteBoardGet(p, f)
    \/ \E f \in BOOLEAN : SqliteBoardCreate(p, f)
    \/ \E f \in BOOLEAN : SqliteBoardUpdateFirst(p, f)
    \/ SqliteBoardUpdateStamp(p)
    \/ \E f \in BOOLEAN : SqliteBoardUpdateSave(p, f)
    \/ \E f \in BOOLEAN : SqliteBoardDelete(p, f)
    \/ BoardReturn(p)
    \/ FinishBoard(p)

\* the steps of worker p in db.Save after its UPDATE found no row: another
\* request deleted the board after the update had read it
BoardSaveInsert(p) ==
    \/ SqliteBoardUpdateInsertStamp(p)
    \/ \E f \in BOOLEAN : SqliteBoardUpdateInsert(p, f)

\* the steps of worker p serving the /boards routes
BoardStep(p) ==
    \/ BoardStart(p, MaxBoards, BoardHeaderInputs, RawTitles)
    \/ BoardRun(p)
    \/ BoardSaveInsert(p)

\* The board requests never reach the user store: it is the one main
\* constructs.
InitBoard == Init /\ userRepoKind = "sqlite"

\* concurrent requests to the /boards routes
NextBoard == \E p \in PairProcs : BoardStep(p)

SpecBoard == InitBoard /\ [][NextBoard]_vars

\* the titles of the requests served one at a time: two titles and a blank one
SeqTitles == {<<"a">>, <<"b">>, <<"U+000B">>}

\* requests to the /boards routes with a token of the service, one at a time,
\* while time passes; no other request deletes the board an update has read,
\* so the UPDATE of db.Save always finds its row
NextBoardSeq ==
    \/ now < MaxSeqTime /\ Tick
    \/ \E p \in ClockProcs :
        \/ BoardStart(p, MaxSeqBoards, {BearerHeader(SampleToken)}, SeqTitles)
        \/ BoardRun(p)

SpecBoardSeq == InitBoard /\ [][NextBoardSeq]_vars

\* the board routes served concurrently by three workers while time passes;
\* every request carries a valid token and the same title
RaceTitles == {<<"a">>}

NextBoardRace ==
    \/ now < MaxRaceTime /\ Tick
    \/ \E p \in Procs :
        \/ BoardStart(p, MaxRaceBoards, {BearerHeader(SampleToken)}, RaceTitles)
        \/ BoardRun(p)
        \/ BoardSaveInsert(p)

SpecBoardRace == InitBoard /\ [][NextBoardRace]_vars

\* ================================================================ claims

\* C1: in every reachable state of the User Store, memUserRepo or
\* sqliteUserRep, at most one user record exists per normalized email.
C1_OneUserPerEmail ==
    \A u \in StoredUsers : \A v \in StoredUsers : u.email = v.email => u = v

\* C2: of the register calls with the same normalized email that ran
\* concurrently and whose store statement did not fail, no two succeed, and
\* each one that does not succeed fails with 409 "user already exists".
C2_OneRegistrationSucceeds ==
    \A p \in Procs :
        (pc[p] = "done" /\ loc[p].op = "register" /\ ~loc[p].fault
            /\ loc[p].svcErr \notin {ErrEmailPasswordRequired, ErrPasswordTooLong, ErrRandom})
        => /\ resp[p].status # 201
                => resp[p].status = 409 /\ resp[p].error = ErrUserExists
           /\ \A q \in Procs \ {p} :
                (pc[q] = "done" /\ loc[q].op = "register" /\ loc[q].email = loc[p].email)
                => ~(resp[p].status = 201 /\ resp[q].status = 201)

\* C3: login returns a user and a token only if a stored user has the
\* normalized email and registered with the supplied password, and it then
\* returns that user; in every other case (no such user, wrong password, a
\* failed lookup) it returns "invalid credentials", no user and no token.
C3_LoginOnlyWithCredentials ==
    \A p \in Procs :
        (pc[p] = "done" /\ loc[p].op = "login")
        => /\ resp[p].status \in {200, 401}
           /\ resp[p].status = 200
                => /\ loc[p].svcErr = NoError
                   /\ resp[p].token # NoToken
                   /\ \E u \in StoredUsers :
                        /\ u.email = loc[p].email
                        /\ u.passwordHash.pw = loc[p].password
                        /\ resp[p].user = UserJSON(u)
                        /\ resp[p].token.sub = u.id
           /\ resp[p].status = 401
                => /\ loc[p].svcErr = ErrInvalidCredentials
                   /\ resp[p] = [NoResp EXCEPT !.status = 401, !.error = ErrInvalidCredentials]
           /\ (Registered(loc[p].email, loc[p].password) = {} \/ loc[p].fault)
                => resp[p].status = 401

\* what holds of login: it succeeds only for a stored user with the
\* normalized email whose registered password has the bcrypt key of the
\* supplied one, which two different passwords can share
C3_UpToKey ==
    \A p \in Procs :
        (pc[p] = "done" /\ loc[p].op = "login")
        => /\ resp[p].status \in {200, 401}
           /\ resp[p].status = 200
                => /\ loc[p].svcErr = NoError
                   /\ resp[p].token # NoToken
                   /\ \E u \in StoredUsers :
                        /\ u.email = loc[p].email
                        /\ BcryptKey(u.passwordHash.pw) = BcryptKey(loc[p].password)
                        /\ resp[p].user = UserJSON(u)
                        /\ resp[p].token.sub = u.id
           /\ resp[p].status = 401
                => /\ loc[p].svcErr = ErrInvalidCredentials
                   /\ resp[p] = [NoResp EXCEPT !.status = 401, !.error = ErrInvalidCredentials]

\* the login of p failed because no user has the email
NoSuchEmail(p) ==
    pc[p] = "done" /\ loc[p].op = "login" /\ loc[p].err = ErrNotFound

\* the login of p failed because the user's password is another one
WrongPassword(p) ==
    /\ pc[p] = "done" /\ loc[p].op = "login" /\ loc[p].err = NoError
    /\ loc[p].user # EmptyUser
    /\ loc[p].user.passwordHash.pw # loc[p].password

\* C4: a login with a wrong password for an existing email and a login with
\* a non-existent email give the caller the same service error and the same
\* HTTP response, 401 "invalid credentials".
C4_SameFailure ==
    \A p \in Procs : \A q \in Procs :
        (NoSuchEmail(p) /\ WrongPassword(q))
        => /\ loc[p].svcErr = loc[q].svcErr
           /\ resp[p] = resp[q]
           /\ resp[p].status = 401
           /\ resp[p].error = ErrInvalidCredentials

\* what holds of the failures: a login refused for its password and a login
\* for an email no user has are answered alike
C4_RefusedAlike ==
    \A p \in Procs : \A q \in Procs :
        (NoSuchEmail(p) /\ WrongPassword(q) /\ resp[q].status # 200)
        => /\ loc[p].svcErr = loc[q].svcErr
           /\ resp[p] = resp[q]
           /\ resp[p].status = 401
           /\ resp[p].error = ErrInvalidCredentials

\* C5: if register(email, password) had succeeded when a login with the same
\* email and password began, and the lookup did not fail, the login succeeds,
\* returns that user, and returns a token the middleware accepts with the same
\* secret until the token expires, with that user's id and email in the context.
C5_RoundTrip ==
    \A p \in Procs :
        (pc[p] = "done" /\ loc[p].op = "login" /\ loc[p].regd # {} /\ ~loc[p].fault)
        => /\ resp[p].status = 200
           /\ \E u \in loc[p].regd :
                /\ resp[p].user = UserJSON(u)
                /\ \A t \in 0..MaxTime :
                     t < resp[p].token.exp
                     => AuthRequired(BearerHeader(resp[p].token), jwtSecret, t)
                          = [ok |-> TRUE, status |-> 0, error |-> NoError,
                             userID |-> u.id, email |-> u.email]

\* the client of p presented its token
Presented(p) == pc[p] = "authed" /\ loc[p].op \in {"register", "login"}

\* C8 as stated: a token issued at t0 with TTL T is accepted at every time
\* before t0+T, rejected at every time after t0+T, and stores the expiry t0+T.
C8_AsStated ==
    \A p \in Procs :
        Presented(p)
        => /\ resp[p].token.exp = loc[p].issuedAt + tokenTTL
           /\ loc[p].usedAt < loc[p].issuedAt + tokenTTL => loc[p].auth.ok
           /\ loc[p].usedAt > loc[p].issuedAt + tokenTTL => ~loc[p].auth.ok

\* C8, amended: the token stores iat = t0 cut to the whole second and
\* exp = iat + T; it is accepted exactly at the times before exp, so at every
\* time at least a second before t0+T, and rejected from t0+T on.
C8_ExpiryFromIssuedAt ==
    \A p \in Procs :
        Presented(p)
        => /\ resp[p].token.iat <= loc[p].issuedAt
           /\ loc[p].issuedAt < resp[p].token.iat + TimePrecision
           /\ resp[p].token.iat % TimePrecision = 0
           /\ resp[p].token.exp = resp[p].token.iat + tokenTTL
           /\ loc[p].auth.ok <=> loc[p].usedAt < resp[p].token.exp
           /\ loc[p].usedAt + TimePrecision <= loc[p].issuedAt + tokenTTL => loc[p].auth.ok
           /\ loc[p].usedAt >= loc[p].issuedAt + tokenTTL => ~loc[p].auth.ok

\* a token issued inside a second and rejected before t0+T
C8_Witness ==
    \E p \in Procs :
        /\ Presented(p)
        /\ loc[p].issuedAt % TimePrecision # 0
        /\ loc[p].usedAt < loc[p].issuedAt + tokenTTL
        /\ ~loc[p].auth.ok

\* the middleware let the request of p through: it wrote no response and
\* called c.Next()
Verified(p) ==
    breq[p].auth.ok /\ breq[p].auth.status = 0 /\ breq[p].auth.error = NoError

\* worker p is inside a repository call
InRepo(p) ==
    pc[p] \in {"blList", "blRead", "bgGet", "bgRead", "bcBuild", "bcCreate",
               "bcPut", "buUpdate",
               "buRead", "buWrite", "suStamp", "suSave", "suInsertStamp", "suInsert", "bdDelete", "bdApply", "bReturn"}

\* a request to /boards that the middleware stopped
Stopped(p) == breq[p].op # "" /\ ~Verified(p)

C6_State ==
    \A p \in Procs :
        /\ (breq[p].handled \/ breq[p].called \/ InRepo(p)) => Verified(p)
        /\ Stopped(p)
            => /\ pc[p] = "bdone"
               /\ ~breq[p].handled /\ ~breq[p].called
               /\ bresp[p].status = 401
               /\ bresp[p].error \in {ErrMissingBearer, ErrInvalidToken}
               /\ bresp[p].board = EmptyBoard /\ bresp[p].list = <<>>

C6_Step ==
    /\ \A p \in Procs : (pc[p] = "idle" /\ Stopped(p)') => UNCHANGED <<boards, boardRows>>
    /\ <<boards, boardRows>>' # <<boards, boardRows>>
        => \E p \in Procs : pc'[p] # pc[p] /\ Verified(p) /\ breq[p].handled

\* C6: a board handler runs and the Board Store is reached only in a request
\* the middleware verified and let through; a request the middleware stopped
\* ends with 401, never entered a handler, and its step leaves the Board Store
\* unchanged; the store changes only in steps of verified requests.
C6_HandlerOnlyAfterMiddleware == []C6_State /\ [][C6_Step]_vars

\* a stopped request beside a verified one that created a board
C6_Witness ==
    \E p \in Procs : \E q \in Procs :
        /\ Stopped(p) /\ pc[p] = "bdone"
        /\ Verified(q) /\ pc[q] = "bdone" /\ breq[q].op = "create" /\ bresp[q].status = 201
        /\ StoredBoards # {}

\* header h carries a well-formed HS256 token signed with the configured
\* secret and unexpired at time t
ValidHS256(h, t) ==
    /\ h.text = BearerPrefix
    /\ h.tok # NoToken
    /\ h.tok.alg = "HS256"
    /\ h.tok.key = jwtSecret
    /\ t < h.tok.exp

\* C7: the middleware accepts a request only if its header carries a valid
\* HS256 token signed with the configured secret and unexpired; a bearer token
\* signed with another secret, using another algorithm, malformed or expired
\* is rejected with 401 "invalid token".
C7_OnlyValidHS256Accepted ==
    \A p \in Procs :
        pc[p] = "authed"
        => /\ loc[p].auth.ok => ValidHS256(loc[p].hdr, loc[p].usedAt)
           /\ (HasPrefix(loc[p].hdr.text, BearerPrefix) /\ ~ValidHS256(loc[p].hdr, loc[p].usedAt))
                => /\ ~loc[p].auth.ok
                   /\ loc[p].auth.status = 401
                   /\ loc[p].auth.error = ErrInvalidToken

AllSpace(s) == \A i \in DOMAIN s : IsSpace(s[i])

\* C9: every board title the Board Store holds has a character that is not
\* white space.
C9_StoredTitlesNonBlank ==
    \A b \in StoredBoards : ~AllSpace(b.title)

\* a board stored by a create whose title came with blanks around it, after a
\* request with a blank title
C9_Witness ==
    \E p \in Procs : \E q \in Procs :
        /\ pc[p] = "bdone" /\ breq[p].op = "create" /\ bresp[p].status = 201
        /\ IsSpace(breq[p].rawTitle[1])
        /\ bresp[p].board \in StoredBoards
        /\ pc[q] = "bdone" /\ breq[q].op \in {"create", "update"}
        /\ breq[q].handled /\ breq[q].bodyOK /\ AllSpace(breq[q].rawTitle)

\* t is raw without the white space at its two ends
IsTrimOf(t, raw) ==
    /\ t = <<>> \/ (~IsSpace(t[1]) /\ ~IsSpace(t[Len(t)]))
    /\ \E i \in 0..Len(raw) : \E j \in i..Len(raw) :
        /\ t = SubSeq(raw, i + 1, j)
        /\ AllSpace(SubSeq(raw, 1, i))
        /\ AllSpace(SubSeq(raw, j + 1, Len(raw)))

\* a create or update whose body was bound
TitleRequest(p) ==
    breq[p].op \in {"create", "update"} /\ breq[p].handled /\ breq[p].bodyOK

C10_State ==
    \A p \in Procs :
        TitleRequest(p)
        => /\ AllSpace(breq[p].rawTitle)
                => /\ pc[p] = "bdone"
                   /\ ~breq[p].called
                   /\ bresp[p].status = 400
                   /\ bresp[p].error = ErrTitleRequired
                   /\ bresp[p].board = EmptyBoard
           /\ ~AllSpace(breq[p].rawTitle)
                => /\ breq[p].called
                   /\ IsTrimOf(breq[p].title, breq[p].rawTitle)
                   /\ (pc[p] = "bdone" /\ bresp[p].status \in {200, 201})
                        => IsTrimOf(bresp[p].board.title, breq[p].rawTitle)

C10_Step ==
    \A p \in Procs :
        /\ (pc[p] = "idle" /\ TitleRequest(p)' /\ AllSpace(breq'[p].rawTitle))
            => UNCHANGED <<boards, boardRows>>
        /\ (TitleRequest(p) /\ pc[p] # "bReturn" /\ pc'[p] = "bReturn"
                /\ breq'[p].err = NoError)
            => /\ breq'[p].row \in StoredBoards'
               /\ IsTrimOf(breq'[p].row.title, breq[p].rawTitle)

\* C10: create and update trim the title; a title that is empty after the
\* trim fails with 400 "title required" without a call of the store and leaves
\* it unchanged; otherwise the record the store writes and the board the
\* response returns carry exactly the trimmed title.
C10_TitleTrimmed == []C10_State /\ [][C10_Step]_vars

\* an update that stored and returned the title without the blanks it came
\* with, beside a create refused for a blank title
C10_Witness ==
    \E p \in Procs : \E q \in Procs :
        /\ pc[p] = "bdone" /\ breq[p].op = "update" /\ bresp[p].status = 200
        /\ breq[p].rawTitle = <<"U+0085", "a", " ">>
        /\ bresp[p].board.title = <<"a">>
        /\ bresp[p].board \in StoredBoards
        /\ pc[q] = "bdone" /\ breq[q].op = "create" /\ breq[q].err = ErrTitleRequired

\* worker p's update of an existing board writes the store in this step
UpdateWrites(p) ==
    /\ breq[p].op = "update"
    /\ pc[p] \in {"buWrite", "suSave", "suInsert"}
    /\ pc'[p] = "bReturn"
    /\ breq'[p].err = NoError
    /\ BoardsWithID(breq[p].id) # {}

\* the time the update of worker p, about to write, gives its board
WriteTime(p) == IF pc[p] \in {"suSave", "suInsert"} THEN breq[p].stamp ELSE now

C11_Step ==
    \A p \in Procs :
        UpdateWrites(p)
        => \E old \in StoredBoards : \E new \in StoredBoards' :
            /\ old.id = breq[p].id
            /\ new.id = old.id
            /\ new.title = breq[p].title
            /\ new.createdAt = old.createdAt
            /\ new.updatedAt = WriteTime(p)
            /\ new.updatedAt >= old.updatedAt
            /\ new.updatedAt <= now
            /\ StoredBoards' = (StoredBoards \ {old}) \cup {new}
            /\ \A b \in StoredBoards : b.id # old.id => b \in StoredBoards'
            /\ breq'[p].row = new

\* C11: the write of a successful update of an existing board sets the
\* board's title to the new title and its updatedAt to the time the update
\* read from the clock (under the lock in memory, by db.Save before its UPDATE
\* in SQLite), which is not before the old updatedAt; id and createdAt stay,
\* every other board stays, and the record is the one returned.
C11_UpdateFrame == [][C11_Step]_vars

\* an update changed the title and advanced updatedAt, with another board in
\* the store
C11_Witness ==
    \E p \in Procs :
        /\ pc[p] = "bReturn" /\ breq[p].op = "update" /\ breq[p].err = NoError
        /\ breq[p].row.title = <<"b">>
        /\ breq[p].row.updatedAt > breq[p].row.createdAt
        /\ breq[p].row \in StoredBoards
        /\ \E b \in StoredBoards : b.id # breq[p].id /\ b.title = <<"a">>

\* worker p's get, update or delete looks its id up in the store in this
\* step and returns from the repository, the database not failing
Lookup(p) ==
    /\ breq[p].op \in {"get", "update", "delete"}
    /\ \/ pc[p] \in {"bgRead", "buRead", "bdApply"}
       \/ pc[p] \in {"bgGet", "buUpdate", "bdDelete"} /\ boardRepoKind = "sqlite"
    /\ pc'[p] = "bReturn"
    /\ ~breq'[p].fault

C12_Step ==
    \A p \in Procs :
        Lookup(p) /\ (BoardsWithID(breq[p].id) = {} \/ breq[p].id \in deleted)
        => /\ breq'[p].err = ErrNotFound
           /\ breq'[p].row = EmptyBoard
           /\ UNCHANGED <<boards, boardRows, deleted>>

\* C12: a get, update or delete whose id is not in the store, a delete of an
\* id already deleted included, fails with ErrNotFound, returns no board and
\* leaves the store as it was.
C12_MissingIsNotFound == [][C12_Step]_vars

\* a second delete of an id failed with ErrNotFound while another board is
\* in the store
C12_Witness ==
    \E p \in Procs :
        /\ pc[p] = "bReturn" /\ breq[p].op = "delete"
        /\ breq[p].id \in deleted
        /\ breq[p].err = ErrNotFound
        /\ StoredBoards # {}

\* worker p's list reads the store in this step, the database not failing
ListReads(p) ==
    /\ breq[p].op = "list"
    /\ pc[p] \in {"blRead", "blList"}
    /\ pc'[p] = "bReturn"
    /\ ~breq'[p].fault

IDsOf(q) == {q[i].id : i \in 1..Len(q)}

C13_State == \A id \in deleted : BoardsWithID(id) = {}

C13_Step ==
    \A p \in Procs :
        /\ Lookup(p) /\ breq[p].op = "get" /\ breq[p].id \in deleted
           => breq'[p].err = ErrNotFound
        /\ ListReads(p) => IDsOf(breq'[p].list) \cap deleted = {}
        /\ pc[p] = "bReturn" /\ pc'[p] = "bdone"
           => /\ breq[p].op = "get" /\ breq[p].id \in deleted
                 => bresp'[p].status = 404 /\ bresp'[p].error = ErrNotFound
              /\ breq[p].op = "list" => IDsOf(bresp'[p].list) \cap deleted = {}

\* C13: with requests served one after another, once a delete of an id has
\* succeeded no board with that id is in the store, every get of that id
\* fails with ErrNotFound and is answered 404, and no list contains a board
\* with that id, whatever requests on other boards came in between.
C13_DeletedStaysGone == []C13_State /\ [][C13_Step]_vars

\* a get of a deleted id was answered 404 after a later board was created
C13_Witness ==
    \E p \in Procs :
        /\ pc[p] = "bdone" /\ breq[p].op = "get"
        /\ breq[p].id \in deleted
        /\ bresp[p].status = 404
        /\ \E b \in StoredBoards : b.id > breq[p].id

\* C14: every answered get, update or delete whose repository call failed
\* with ErrNotFound, the id being absent from the store, has status 404.
C14_MissingIs404 ==
    \A p \in Procs :
        /\ pc[p] = "bdone"
        /\ breq[p].op \in {"get", "update", "delete"}
        /\ breq[p].err = ErrNotFound
        => bresp[p].status = 404

\* C15: every answered board request whose repository call failed with an
\* error of the database has status 500.
C15_StoreFailureIs500 ==
    \A p \in Procs :
        pc[p] = "bdone" /\ breq[p].fault => bresp[p].status = 500

\* the register request of worker p carries an email with nothing but white
\* space in it, or an empty password
EmptyInput(p) ==
    /\ loc[p].op = "register"
    /\ AllSpace(loc[p].rawEmail) \/ loc[p].password = <<>>

C16_State ==
    \A p \in Procs :
        EmptyInput(p)
        => /\ pc[p] = "done"
           /\ loc[p].svcErr = ErrEmailPasswordRequired
           /\ loc[p].user = EmptyUser
           /\ resp[p].status = 400
           /\ resp[p].error = ErrEmailPasswordRequired
           /\ resp[p].user = EmptyUser
           /\ resp[p].token = NoToken

C16_Step ==
    <<users, emailIdx, userRows>>' # <<users, emailIdx, userRows>>
    => \E p \in Procs :
        /\ pc'[p] # pc[p]
        /\ loc[p].op = "register"
        /\ ~EmptyInput(p)

\* C16: a register request whose email is empty or all white space, or whose
\* password is empty, is answered 400 'email and password required' with no
\* user and no token and never reaches the User Store; every change of the
\* User Store is made by a register request with an email and a password.
C16_EmptyInputRejected == []C16_State /\ [][C16_Step]_vars

\* a blank email with a password was rejected while a user is registered
C16_Witness ==
    \E p \in Procs :
        /\ pc[p] = "done" /\ loc[p].op = "register"
        /\ loc[p].rawEmail = <<" ">> /\ loc[p].password = Password72
        /\ resp[p].error = ErrEmailPasswordRequired
        /\ StoredUsers # {}

UpperCase == {"A", "B"}

\* e is raw without the white space at its two ends and with its upper-case
\* letters in lower case
IsNormalOf(e, raw) ==
    \E t \in {SubSeq(raw, i + 1, j) : i \in 0..Len(raw), j \in 0..Len(raw)} :
        /\ IsTrimOf(t, raw)
        /\ Len(e) = Len(t)
        /\ \A k \in 1..Len(t) :
            IF t[k] \in UpperCase
            THEN <<t[k], e[k]>> \in {<<"A", "a">>, <<"B", "b">>}
            ELSE e[k] = t[k]

\* every stored email is in normal form, and the email register and login
\* hand to the User Store is the normal form of the email of the request
C17_State ==
    /\ \A u \in StoredUsers : u.email # <<>> /\ IsNormalOf(u.email, u.email)
    /\ \A p \in Procs :
        loc[p].op \in {"register", "login"} => IsNormalOf(loc[p].email, loc[p].rawEmail)

\* when a login begins, the users it should find are those whose email is
\* the normal form of the email sent and whose password is the one sent
C17_Step ==
    \A p \in Procs :
        pc[p] = "idle" /\ loc'[p].op = "login"
        => loc'[p].regd = {u \in StoredUsers : /\ IsNormalOf(u.email, loc'[p].rawEmail)
                                               /\ u.passwordHash.pw = loc'[p].password}

\* a login with a variant of a registered email and the right password
\* succeeds for the user registered with that email
C17_Login ==
    \A p \in Procs :
        (pc[p] = "done" /\ loc[p].op = "login" /\ loc[p].regd # {} /\ ~loc[p].fault)
        => /\ resp[p].status = 200
           /\ \A u \in loc[p].regd : resp[p].user = UserJSON(u)

\* the normalisation alone: C17_State, C17_Step, and the login succeeding
\* for a user registered with that email
C17_NormalizationOnly ==
    /\ []C17_State
    /\ [][C17_Step]_vars
    /\ [](\A p \in Procs :
            (pc[p] = "done" /\ loc[p].op = "login" /\ loc[p].regd # {} /\ ~loc[p].fault)
            => /\ resp[p].status = 200
               /\ IsNormalOf(resp[p].user.email, loc[p].rawEmail))

\* C17: register and login hand the User Store only normalised emails, every
\* stored email is normalised, and a login with any case or white-space
\* variant of a registered email and the right password succeeds for the
\* user registered with that email.
C17_NormalizedEverywhere == [](C17_State /\ C17_Login) /\ [][C17_Step]_vars

\* emailIdx maps exactly the emails of the users in the map, each to the id
\* of the user with that email, and every user is filed under its own id
IndexConsistent ==
    /\ DOMAIN emailIdx = {users[id].email : id \in DOMAIN users}
    /\ \A e \in DOMAIN emailIdx :
        emailIdx[e] \in DOMAIN users /\ users[emailIdx[e]].email = e
    /\ \A id \in DOMAIN users :
        users[id].id = id /\ emailIdx[users[id].email] = id

\* the workers inside memUserRepo.GetByEmail
UserReaders == {p \in Procs : pc[p] \in {"geIdx", "geUser"}}

C18_State ==
    userRepoKind = "mem"
    => /\ UserReaders = userMu.r
       /\ userMu.r # {} => userMu.w = ""
       /\ userMu.w = "" => IndexConsistent
       /\ userMu.w # "" => pc[userMu.w] \in {"ucCheck", "ucPutUser", "ucPutIdx"}

C18_Step ==
    /\ <<users, emailIdx>>' # <<users, emailIdx>>
       => \E p \in Procs :
            /\ userMu.w = p /\ userMu.r = {}
            /\ pc[p] \in {"ucPutUser", "ucPutIdx"}
            /\ pc'[p] # pc[p]
    /\ \A p \in Procs :
        /\ userMu.w = p /\ userMu'.w # p
           => IndexConsistent' /\ (pc[p] = "ucCheck" => UNCHANGED <<users, emailIdx>>)
        /\ pc[p] = "geUser" /\ pc'[p] = "lgReturn"
           => /\ loc'[p].user \in StoredUsers
              /\ loc'[p].user.email = loc[p].email
              /\ emailIdx[loc[p].email] = loc'[p].user.id

\* C18: in the in-memory User Store the two maps change only while one
\* writer holds the lock with no reader inside, the index and the map agree
\* whenever no writer holds the lock and so in every state a reader is
\* inside GetByEmail, the writer releases the lock with both maps updated,
\* and a reader that found an email in the index finds that user in the map.
C18_IndexConsistent == []C18_State /\ [][C18_Step]_vars

\* a writer has put the user into the map and not yet the email into the
\* index, and a login waits for the lock
C18_Witness ==
    \E p \in Procs : \E q \in Procs :
        /\ userRepoKind = "mem"
        /\ pc[p] = "ucPutIdx" /\ userMu.w = p
        /\ ~IndexConsistent
        /\ pc[q] = "lgGet" /\ loc[q].email = loc[p].email

\* the workers inside memBoardRepo.List or memBoardRepo.Get
BoardReaders == {p \in Procs : pc[p] \in {"blRead", "bgRead"}}

C19_State ==
    boardRepoKind = "mem"
    => /\ \A id \in DOMAIN boards : boards[id].id = id
       /\ BoardReaders = boardMu.r
       /\ boardMu.r # {} => boardMu.w = ""
       /\ boardMu.w # "" => pc[boardMu.w] \in {"bcPut", "buRead", "buWrite", "bdApply"}
       /\ \A p \in Procs :
            pc[p] = "buWrite"
            => breq[p].id \in DOMAIN boards /\ breq[p].row = boards[breq[p].id]

C19_Step ==
    boardRepoKind = "mem"
    => /\ boards' # boards
          => \E p \in Procs :
               /\ boardMu.w = p /\ boardMu.r = {}
               /\ pc'[p] = "bReturn"
               /\ \/ /\ pc[p] = "bcPut"
                     /\ breq[p].row.id \notin DOMAIN boards
                     /\ boards' = Put(boards, breq[p].row.id, breq[p].row)
                  \/ /\ pc[p] = "buWrite"
                     /\ breq'[p].row = [boards[breq[p].id] EXCEPT !.title = breq[p].title,
                                                                  !.updatedAt = now]
                     /\ boards' = Put(boards, breq[p].id, breq'[p].row)
                  \/ /\ pc[p] = "bdApply"
                     /\ boards' = Remove(boards, breq[p].id)
       /\ \A p \in Procs :
            /\ pc[p] = "bgRead" /\ pc'[p] = "bReturn" /\ breq'[p].err = NoError
               => breq'[p].row \in StoredBoards /\ breq'[p].row.id = breq[p].id
            /\ pc[p] = "blRead" /\ pc'[p] = "bReturn"
               => /\ {breq'[p].list[i] : i \in 1..Len(breq'[p].list)} = StoredBoards
                  /\ \A i \in 1..Len(breq'[p].list) : \A j \in 1..Len(breq'[p].list) :
                        breq'[p].list[i].id = breq'[p].list[j].id => i = j

\* C19: in the in-memory Board Store the map changes only in a step of the
\* one worker holding the write lock, with no reader inside, and the step
\* puts one whole record (the record a create built, or the stored record
\* with the new title and time of an update) or removes one; a get returns
\* a record of the store whole, and a list returns exactly the records of
\* the store, one per id.
C19_WholeRecords == []C19_State /\ [][C19_Step]_vars

\* a list returned the board while another worker is in the middle of an
\* update of it
C19_Witness ==
    \E p \in Procs : \E q \in Procs :
        /\ boardRepoKind = "mem"
        /\ pc[p] = "bReturn" /\ breq[p].op = "list" /\ Len(breq[p].list) = 1
        /\ pc[q] = "buWrite" /\ boardMu.w = q
        /\ breq[p].list[1] = boards[breq[q].id]

\* worker p's update has read its board and not yet written it
UpdateInFlight(p) == breq[p].op = "update" /\ pc[p] \in {"buWrite", "suStamp", "suSave", "suInsertStamp", "suInsert"}

\* between the read and the write of an update no other update writes the
\* board: the record the update read is the record the store still holds
C20_State ==
    \A p \in Procs :
        UpdateInFlight(p) /\ BoardsWithID(breq[p].id) # {}
        => BoardsWithID(breq[p].id) = {breq[p].row}

\* the write of an update replaces the stored record by that record with the
\* new title and time, and the call returns the record it wrote
C20_Step ==
    \A p \in Procs :
        UpdateWrites(p)
        => \E old \in BoardsWithID(breq[p].id) :
            /\ breq'[p].row = [old EXCEPT !.title = breq[p].title,
                                          !.updatedAt = WriteTime(p)]
            /\ StoredBoards' = (StoredBoards \ {old}) \cup {breq'[p].row}

\* the outcome alone: whatever the interleaving, the write of an update
\* leaves the board as the update would leave it when applied to the
\* stored record, and returns what it wrote
C20_OutcomeOnly == [][C20_Step]_vars

\* C20: an update reads, changes and writes its board as one atomic step with
\* respect to the other updates of that board, so that the stored board is
\* the result of the updates applied one after another, and each update
\* returns the record as its own write left it.
C20_UpdatesSerialized == []C20_State /\ [][C20_Step]_vars

\* the header text begins with the seven characters of "Bearer ", in that case
BearerScheme(h) ==
    /\ Len(h.text) >= 7
    /\ \A i \in 1..7 : h.text[i] = <<"B", "e", "a", "r", "e", "r", " ">>[i]

Rejected(msg) == [ok |-> FALSE, status |-> 401, error |-> msg, userID |-> 0, email |-> <<>>]

\* the middleware's answer to header h at time t when verified(h, t) says
\* whether the token after the prefix passes verification
Classified(a, h, verified) ==
    /\ ~BearerScheme(h) => a = Rejected(ErrMissingBearer)
    /\ BearerScheme(h) /\ ~verified => a = Rejected(ErrInvalidToken)
    /\ BearerScheme(h) /\ verified
       => a = [ok |-> TRUE, status |-> 0, error |-> NoError,
               userID |-> h.tok.sub, email |-> h.tok.email]

\* the classification alone, a token passing verification when it is signed
\* with the configured secret by any HMAC method and unexpired
C21_ClassificationOnly ==
    \A p \in Procs :
        pc[p] = "authed"
        => Classified(loc[p].auth, loc[p].hdr,
                      /\ loc[p].hdr.text = BearerPrefix
                      /\ loc[p].hdr.tok # NoToken
                      /\ loc[p].hdr.tok.alg \in {"HS256", "HS384", "HS512"}
                      /\ loc[p].hdr.tok.key = jwtSecret
                      /\ loc[p].usedAt < loc[p].hdr.tok.exp)

\* C21: the middleware answers 401 'missing bearer token' when the header is
\* absent or lacks the exact prefix "Bearer ", 401 'invalid token' when the
\* prefix is there and the token after it, an empty one included, is not a
\* well-formed unexpired token with an HMAC-SHA256 signature under the
\* configured secret, and only otherwise sets userID and email and lets the
\* handler run.
C21_FirstFailureClassified ==
    \A p \in Procs :
        pc[p] = "authed"
        => Classified(loc[p].auth, loc[p].hdr, ValidHS256(loc[p].hdr, loc[p].usedAt))

\* no board of the SQLite store has the id of a board a delete removed
C22_State ==
    boardRepoKind = "sqlite" => \A b \in boardRows : b.id \notin deleted

\* the write of an update whose board was deleted after the update read it
\* fails with ErrNotFound or changes nothing
C22_Step ==
    \A p \in Procs :
        /\ boardRepoKind = "sqlite"
        /\ pc[p] \in {"suSave", "suInsert"} /\ pc'[p] = "bReturn"
        /\ breq[p].id \in deleted
        /\ ~breq'[p].fault
        => /\ boardRows' = boardRows
           /\ breq'[p].err = ErrNotFound \/ BoardsWithID(breq[p].id)' = {}

\* C22: in the SQLite Board Store a board whose delete has succeeded is never
\* in the store again; an update that read the board before the delete and
\* writes after it fails with ErrNotFound or has no effect.
C22_DeletedNotReinserted == []C22_State /\ [][C22_Step]_vars

\* GetByEmail has returned to the login of worker p: a nil error comes with
\* a user of the store that has the email asked for, and a failure of the
\* database comes as an error other than ErrNotFound
C23_State ==
    \A p \in Procs :
        pc[p] = "lgReturn"
        => /\ loc[p].err = NoError
              => loc[p].user \in StoredUsers /\ loc[p].user.email = loc[p].email
           /\ loc[p].fault => loc[p].err \notin {NoError, ErrNotFound}

\* a lookup of an email no user has, the database not failing, returns
\* ErrNotFound
C23_Step ==
    \A p \in Procs :
        /\ pc[p] \in {"lgGet", "geIdx"} /\ pc'[p] = "lgReturn"
        /\ UsersWithEmail(loc[p].email) = {}
        /\ ~loc'[p].fault
        => loc'[p].err = ErrNotFound /\ loc'[p].user = EmptyUser

\* C23: GetByEmail returns a nil error only with the record of a user of the
\* store that has that email, ErrNotFound when no user has it, and an error
\* when the store fails, never a nil error with an empty user.
C23_LookupResult == []C23_State /\ [][C23_Step]_vars

\* every stored board was created no later than it was last updated
C24_State == \A b \in StoredBoards : b.createdAt <= b.updatedAt

\* from one state of the store to the next a board keeps its createdAt and
\* its updatedAt does not decrease
C24_Step ==
    \A b \in StoredBoards : \A c \in StoredBoards' :
        c.id = b.id => c.createdAt = b.createdAt /\ c.updatedAt >= b.updatedAt

\* what holds of the timestamps under concurrent updates: createdAt is kept
\* and is never after updatedAt
C24_CreatedAtKept ==
    /\ []C24_State
    /\ [][\A b \in StoredBoards : \A c \in StoredBoards' :
            c.id = b.id => c.createdAt = b.createdAt]_vars

\* C24: under concurrent requests every stored board keeps the createdAt it
\* was created with, has createdAt <= updatedAt, and its updatedAt never
\* decreases from one stored state to the next.
C24_TimestampsMonotone == []C24_State /\ [][C24_Step]_vars

====
